---- MODULE Spec2Model ----
(***************************************************************************)
(* A model of the modal editor core of muelsyse: the run loop, the key     *)
(* dispatcher and the renderer of both variants,                            *)
(*   ch1  src/codebase/ch1/main.rs          (minimal variant)               *)
(*   ch2  src/codebase/ch2/src/editor.rs    (status-line variant).          *)
(* The terminal (crossterm) is the environment: its commands are queued in  *)
(* `queue`, delivered by a flush, and any of its operations may fail.       *)
(***************************************************************************)
EXTENDS Integers, Sequences, FiniteSets

VARIABLES
    variant,          \* "ch1" | "ch2": which of the two programs runs
    overflow_checks,  \* build profile: TRUE = arithmetic overflow panics (debug)
    size,             \* Editor.size  = <<width, height>>, captured in new()
    mode,             \* Editor.mode
    cx, cy,           \* Editor.cursor.x, Editor.cursor.y  (u16)
    pc,               \* position of run(): "start" "draw" "read" "ok" "err" "panic"
    at,               \* the operation at which run() failed or panicked ("" if none)
    queue,            \* commands queued on stdout and not yet flushed
    flushed,          \* what the draw of the current iteration has flushed
    termStyle,        \* the cursor style the terminal shows
    termCur,          \* the terminal's real cursor, <<x, y>> (<<>> = not known)
    rawMode,          \* terminal raw mode is enabled
    altScreen,        \* the terminal shows the alternate screen
    action,           \* the event of the current iteration and what it dispatched to
    matched,          \* how many events of HelloKeys the events read so far match
    twin              \* the minimal variant's editor run on the same events (or NoTwin)

vars == <<variant, overflow_checks, size, mode, cx, cy, pc, at, queue, flushed,
          termStyle, termCur, rawMode, altScreen, action, matched, twin>>

(***************************************************************************)
(* Bounds of the model.                                                    *)
(***************************************************************************)
MaxCol == 5
MaxRow == 2
U16Mod == 65536

Variants == {"ch1", "ch2"}
Modes == {"Normal", "Insert"}
\* terminal sizes the model starts from: <<width, height>>
Sizes == {<<3, 24>>, <<6, 24>>, <<14, 2>>, <<14, 1>>}
\* the sizes a Resize event reports
NewSizes == {<<2, 24>>, <<80, 25>>}
\* the sizes of the runs that are followed from a cursor far from (0, 0)
WideSizes == {<<40, 24>>, <<80, 24>>}
\* The cursor coordinates the model follows: a window at the origin, the columns
\* around the widths and where x + 1 and y + 1 take one more digit, and the last
\* two values of a u16.  A step that leaves them is not followed.
EdgeCoords == {U16Mod - 2, U16Mod - 1}
Cols == (0..MaxCol) \cup {9, 39, 40, 41, 79, 80, 81, 999, 9999} \cup EdgeCoords
Rows == (0..MaxRow) \cup {5, 6, 99, 9999} \cup EdgeCoords

(***************************************************************************)
(* u16 arithmetic.                                                         *)
(***************************************************************************)
saturating_sub(a, b) == IF a < b THEN 0 ELSE a - b
add_overflows(a, b) == a + b >= U16Mod
wrapping_add(a, b) == (a + b) % U16Mod
sub_overflows(a, b) == a < b
wrapping_sub(a, b) == (a - b + U16Mod) % U16Mod

(***************************************************************************)
(* Mode.                                                                   *)
(***************************************************************************)
get_cursor_style(m) == IF m = "Normal" THEN "SteadyBlock" ELSE "BlinkingBar"
mode_fmt(m) == IF m = "Normal" THEN "NORMAL" ELSE "INSERT"

(***************************************************************************)
(* Events (crossterm::event::Event) and Actions.                           *)
(***************************************************************************)
Chars == {"q", "i", "h", "j", "k", "l", "e", "o"}
SpecialKeys == {"Esc", "Up", "Down", "Left", "Right", "Enter", "Tab"}
KeyChar(c) == [kind |-> "Key", code |-> "Char", ch |-> c]
Key(k) == [kind |-> "Key", code |-> k, ch |-> ""]
Resize(w, h) == [kind |-> "Resize", cols |-> w, rows |-> h]
Other(k) == [kind |-> k]
KeyEvents == {KeyChar(c) : c \in Chars} \cup {Key(k) : k \in SpecialKeys}
NonKeyEvents ==
    {Resize(s[1], s[2]) : s \in NewSizes}
        \cup {Other(k) : k \in {"Mouse", "Paste", "FocusGained", "FocusLost"}}
Events == KeyEvents \cup NonKeyEvents

None == [name |-> "None", arg |-> ""]
Act(n) == [name |-> n, arg |-> ""]
ActArg(n, a) == [name |-> n, arg |-> a]

handle_normal_event(e) ==
    IF e.kind = "Key"
    THEN CASE e.code = "Char" /\ e.ch = "q" -> Act("Quit")
           [] e.code = "Char" /\ e.ch = "i" -> ActArg("ChangeMode", "Insert")
           [] e.code = "Up" \/ (e.code = "Char" /\ e.ch = "k") -> Act("MoveUp")
           [] e.code = "Down" \/ (e.code = "Char" /\ e.ch = "j") -> Act("MoveDown")
           [] e.code = "Left" \/ (e.code = "Char" /\ e.ch = "h") -> Act("MoveLeft")
           [] e.code = "Right" \/ (e.code = "Char" /\ e.ch = "l") -> Act("MoveRight")
           [] OTHER -> None
    ELSE None

\* the Insert-mode bindings of variant v
handle_insert_event_of(v, e) ==
    IF e.kind = "Key"
    THEN CASE e.code = "Esc" -> ActArg("ChangeMode", "Normal")
           [] e.code = "Char" -> ActArg("AddChar", e.ch)
           [] e.code = "Up" -> Act("MoveUp")
           [] e.code = "Down" -> Act("MoveDown")
           [] e.code = "Left" -> Act("MoveLeft")
           [] e.code = "Right" -> Act("MoveRight")
           [] e.code = "Enter" /\ v = "ch2" -> Act("NewLine")
           [] OTHER -> None
    ELSE None

handle_insert_event(e) == handle_insert_event_of(variant, e)

\* a dispatcher whose Normal-mode bindings are global
handle_event_unscoped(e) == handle_normal_event(e)

\* the dispatch of variant v in mode m
handle_event_of(v, m, e) ==
    IF m = "Normal" THEN handle_normal_event(e) ELSE handle_insert_event_of(v, e)

\* a dispatcher in which Esc returns to Normal mode from every mode
handle_event_esc_global(e) ==
    IF e = Key("Esc") THEN ActArg("ChangeMode", "Normal")
    ELSE IF mode = "Normal" THEN handle_normal_event(e) ELSE handle_insert_event(e)

handle_event(e) ==
    IF mode = "Normal" THEN handle_normal_event(e) ELSE handle_insert_event(e)

(***************************************************************************)
(* Terminal commands (crossterm) and what the terminal does with them.     *)
(***************************************************************************)
MoveTo(x, y) == [op |-> "MoveTo", x |-> x, y |-> y]
style_Print(c) == [op |-> "Print", text |-> c, pad |-> 0, cells |-> 1]
PrintStyledContent(seg, text, pad) ==
    [op |-> "PrintStyledContent", seg |-> seg, text |-> text, pad |-> pad,
     cells |-> Len(text) + pad]
SetCursorStyle(st) == [op |-> "SetCursorStyle", style |-> st]

\* one command reaching the terminal t = [cur, style]; printed text moves the
\* terminal's cursor right by the cells it takes
term_apply(t, c) ==
    CASE c.op = "MoveTo" -> [t EXCEPT !.cur = <<c.x, c.y>>]
      [] c.op = "SetCursorStyle" -> [t EXCEPT !.style = c.style]
      [] OTHER -> IF t.cur = <<>> THEN t
                  ELSE [t EXCEPT !.cur = <<t.cur[1] + c.cells, t.cur[2]>>]

RECURSIVE deliver(_, _)
deliver(t, cmds) ==
    IF cmds = <<>> THEN t ELSE deliver(term_apply(t, Head(cmds)), Tail(cmds))

(***************************************************************************)
(* Renderer: Editor::draw_statusline (ch2) and Editor::draw.               *)
(***************************************************************************)
Digit == <<"0", "1", "2", "3", "4", "5", "6", "7", "8", "9">>
RECURSIVE fmt_u16(_)
fmt_u16(n) == IF n < 10 THEN Digit[n + 1] ELSE fmt_u16(n \div 10) \o Digit[(n % 10) + 1]

\* format!("{:<width$}", s, width): the blanks appended to s, which is never cut
pad_of(s, width) == IF Len(s) >= width THEN 0 ELSE width - Len(s)

mode_str == " " \o mode_fmt(mode) \o " "
file == " src/main.rs"
pos == " " \o fmt_u16(wrapping_add(cy, 1)) \o ":" \o fmt_u16(wrapping_add(cx, 1))
\* the two powerline glyphs U+E0B0 and U+E0B2, one cell each
sep_left == ">"
sep_right == "<"

\* a filler width that forgets the two separators
file_width_no_separators ==
    wrapping_sub(wrapping_sub(size[1], Len(mode_str)), Len(pos))

file_width ==
    wrapping_sub(wrapping_sub(wrapping_sub(size[1], Len(mode_str)), Len(pos)), 2)
file_width_overflows ==
    \/ sub_overflows(size[1], Len(mode_str))
    \/ sub_overflows(wrapping_sub(size[1], Len(mode_str)), Len(pos))
    \/ sub_overflows(wrapping_sub(wrapping_sub(size[1], Len(mode_str)), Len(pos)), 2)

\* where draw_statusline panics in a build with overflow checks ("" = nowhere)
draw_statusline_panic ==
    CASE ~overflow_checks -> ""
      [] add_overflows(cy, 1) -> "cursor.y + 1"
      [] add_overflows(cx, 1) -> "cursor.x + 1"
      [] file_width_overflows -> "file_width"
      [] sub_overflows(size[2], 2) -> "size.1 - 2"
      [] OTHER -> ""

draw_statusline ==
    << MoveTo(0, wrapping_sub(size[2], 2)),
       PrintStyledContent("mode", mode_str, 0),
       PrintStyledContent("sep", sep_left, 0),
       PrintStyledContent("file", file, pad_of(file, file_width)),
       PrintStyledContent("sep", sep_right, 0),
       PrintStyledContent("pos", pos, 0) >>

\* a draw that positions the cursor before it draws the status line
draw_cursor_first ==
    IF variant = "ch2" THEN <<MoveTo(cx, cy)>> \o draw_statusline
    ELSE <<MoveTo(cx, cy)>>

\* the commands one draw queues, in order; the flush follows them
draw == IF variant = "ch2" THEN draw_statusline \o <<MoveTo(cx, cy)>>
        ELSE <<MoveTo(cx, cy)>>
draw_panic == IF variant = "ch2" THEN draw_statusline_panic ELSE ""

(***************************************************************************)
(* Editor state machine: the match of Editor::run on the Action.  The      *)
(* editor's state is the record s = [mode, x, y, size, queue, pc, at];     *)
(* f names the queue call that fails (0 = none does).                      *)
(***************************************************************************)
editor ==
    [mode |-> mode, x |-> cx, y |-> cy, size |-> size, queue |-> queue,
     pc |-> "draw", at |-> ""]

io_error(s, where) == [s EXCEPT !.pc = "err", !.at = where]
panicked(s, where) == [s EXCEPT !.pc = "panic", !.at = where]

\* self.cursor.x += 1 and self.cursor.y += 1
inc_x(s) ==
    IF add_overflows(s.x, 1) /\ overflow_checks THEN panicked(s, "cursor.x += 1")
    ELSE [s EXCEPT !.x = wrapping_add(@, 1)]
inc_y(s) ==
    IF add_overflows(s.y, 1) /\ overflow_checks THEN panicked(s, "cursor.y += 1")
    ELSE [s EXCEPT !.y = wrapping_add(@, 1)]

\* a Quit that homes the cursor before leaving
Quit_homes_cursor(s) == [s EXCEPT !.pc = "ok", !.x = 0, !.y = 0]
\* a Quit that does not break the loop
Quit_keeps_running(s) == s

\* Action::Quit => break
Quit(s) == [s EXCEPT !.pc = "ok"]

\* a mode change that issues no command when the mode is already m
ChangeMode_coalesced(s, m, f) ==
    IF s.mode = m THEN s
    ELSE IF f = 1 THEN io_error(s, "queue SetCursorStyle")
    ELSE [s EXCEPT !.queue = Append(@, SetCursorStyle(get_cursor_style(m))),
                   !.mode = m]

\* a mode change that leaves the cursor style as it was
ChangeMode_style_stale(s, m, f) == [s EXCEPT !.mode = m]

\* a mode change that sets the mode before it queues the style command
ChangeMode_mode_first(s, m, f) ==
    IF f = 1 THEN io_error([s EXCEPT !.mode = m], "queue SetCursorStyle")
    ELSE [s EXCEPT !.queue = Append(@, SetCursorStyle(get_cursor_style(m))),
                   !.mode = m]

ChangeMode(s, m, f) ==
    IF f = 1 THEN io_error(s, "queue SetCursorStyle")
    ELSE [s EXCEPT !.queue = Append(@, SetCursorStyle(get_cursor_style(m))),
                   !.mode = m]

\* a decrement that wraps instead of saturating
MoveUp_wrapping(s) == [s EXCEPT !.y = wrapping_sub(@, 1)]
MoveUp(s) == [s EXCEPT !.y = saturating_sub(@, 1)]
\* a MoveDown that goes to the first column of the next row
MoveDown_homes_column(s) == inc_y([s EXCEPT !.x = 0])
MoveDown(s) == inc_y(s)
MoveLeft(s) == [s EXCEPT !.x = saturating_sub(@, 1)]
MoveRight(s) == inc_x(s)

\* a wrap taken as soon as x reaches the width
wrap_at_width(s) ==
    IF s.x >= s.size[1]
    THEN LET t == inc_y(s) IN IF t.pc = "panic" THEN t ELSE [t EXCEPT !.x = 0]
    ELSE s

\* a wrap taken one column late
wrap_one_late(s) ==
    IF s.x > s.size[1] + 1
    THEN LET t == inc_y(s) IN IF t.pc = "panic" THEN t ELSE [t EXCEPT !.x = 0]
    ELSE s

\* if self.cursor.x > self.size.0 { self.cursor.y += 1; self.cursor.x = 0; }
wrap(s) ==
    IF s.x > s.size[1]
    THEN LET t == inc_y(s) IN IF t.pc = "panic" THEN t ELSE [t EXCEPT !.x = 0]
    ELSE s

AddChar(s, c, f) ==
    IF f = 1 THEN io_error(s, "queue MoveTo")
    ELSE LET s1 == [s EXCEPT !.queue = Append(@, MoveTo(s.x, s.y))] IN
         IF f = 2 THEN io_error(s1, "queue Print")
         ELSE LET s2 == [s1 EXCEPT !.queue = Append(@, style_Print(c))]
                  s3 == inc_x(s2)
              IN  IF s3.pc = "panic" THEN s3 ELSE wrap(s3)

\* a line break that keeps the column
NewLine_keeps_column(s) == inc_y(s)

\* self.cursor.x = 0; self.cursor.y += 1
NewLine(s) == inc_y([s EXCEPT !.x = 0])

\* an ignored event that still takes the size a Resize reports
no_action_resizes(s, e) ==
    IF e.kind = "Resize" THEN [s EXCEPT !.size = <<e.cols, e.rows>>] ELSE s

\* if let Some(action) = ... : an event that dispatches to no Action
no_action(s, e) == s

\* the queue calls an Action makes
queue_calls(a) ==
    CASE a.name = "ChangeMode" -> 1
      [] a.name = "AddChar" -> 2
      [] OTHER -> 0

apply(s, e, a, f) ==
    CASE a.name = "Quit" -> Quit(s)
      [] a.name = "ChangeMode" -> ChangeMode(s, a.arg, f)
      [] a.name = "MoveUp" -> MoveUp(s)
      [] a.name = "MoveDown" -> MoveDown(s)
      [] a.name = "MoveLeft" -> MoveLeft(s)
      [] a.name = "MoveRight" -> MoveRight(s)
      [] a.name = "AddChar" -> AddChar(s, a.arg, f)
      [] a.name = "NewLine" -> NewLine(s)
      [] OTHER -> no_action(s, e)

(***************************************************************************)
(* The run of the program.                                                 *)
(***************************************************************************)
Idle == [mode |-> "-", ev |-> [kind |-> "-"], act |-> None]

\* the end-to-end scenario's key sequence
HelloKeys ==
    << KeyChar("i"), KeyChar("h"), KeyChar("e"), KeyChar("l"), KeyChar("l"),
       KeyChar("o"), Key("Esc"), KeyChar("q") >>
Off == 0 - 1
match_next(n, e) ==
    IF n # Off /\ n < Len(HelloKeys) /\ e = HelloKeys[n + 1] THEN n + 1 ELSE Off

\* Editor::new(): Normal mode, cursor (0, 0), the terminal's size
new ==
    /\ variant \in Variants
    /\ overflow_checks \in BOOLEAN
    /\ size \in Sizes
    /\ mode = "Normal"
    /\ cx = 0
    /\ cy = 0
    /\ pc = "start"
    /\ at = ""
    /\ queue = <<>>
    /\ flushed = <<>>
    /\ termStyle = "DefaultUserShape"
    /\ termCur = <<>>
    /\ rawMode = FALSE
    /\ altScreen = FALSE
    /\ action = Idle
    /\ matched = 0

\* one program runs alone
NoTwin == [pc |-> "-"]

Init == new /\ twin = NoTwin

\* run, up to the loop: enable_raw_mode, then EnterAlternateScreen, Clear and the
\* cursor style of the mode, each executed (queued and flushed) at once.
\* f names the call that fails (0 = none does).
startup_calls == <<"enable_raw_mode", "EnterAlternateScreen", "Clear", "SetCursorStyle">>
run_startup(f) ==
    /\ pc = "start"
    /\ rawMode' = (f # 1)
    /\ altScreen' = (f = 0 \/ f > 2)
    /\ termStyle' = IF f = 0 THEN get_cursor_style(mode) ELSE termStyle
    /\ pc' = IF f = 0 THEN "draw" ELSE "err"
    /\ at' = IF f = 0 THEN "" ELSE startup_calls[f]
    /\ UNCHANGED <<variant, overflow_checks, size, mode, cx, cy, queue, flushed,
                   termCur, action, matched>>

\* a draw that queues its commands and returns without the flush
run_draw_no_flush(f) ==
    /\ pc = "draw"
    /\ f \in 0..Len(draw)
    /\ action' = Idle
    /\ UNCHANGED <<variant, overflow_checks, size, mode, cx, cy, rawMode,
                   altScreen, matched, flushed, termStyle, termCur>>
    /\ IF draw_panic # ""
       THEN /\ f = 0
            /\ pc' = "panic"
            /\ at' = draw_panic
            /\ UNCHANGED queue
       ELSE IF f \in 1..Len(draw)
       THEN /\ queue' = queue \o SubSeq(draw, 1, f - 1)
            /\ pc' = "err"
            /\ at' = "queue"
       ELSE /\ queue' = queue \o draw
            /\ pc' = "read"
            /\ at' = ""

\* self.draw()?: the commands of draw are queued, then all that is queued is
\* flushed.  f names the call that fails (0 = none, Len(draw) + 1 = the flush).
\* What a failed flush has delivered is not known: the terminal's cursor and
\* style are unknown after it.
run_draw(f) ==
    LET d == draw
        q == queue \o d
        t == deliver([cur |-> termCur, style |-> termStyle], q)
    IN
    /\ pc = "draw"
    /\ f \in 0..(Len(d) + 1)
    /\ action' = Idle
    /\ UNCHANGED <<variant, overflow_checks, size, mode, cx, cy, rawMode,
                   altScreen, matched>>
    /\ IF draw_panic # ""
       THEN /\ f = 0
            /\ pc' = "panic"
            /\ at' = draw_panic
            /\ UNCHANGED <<queue, flushed, termStyle, termCur>>
       ELSE IF f \in 1..Len(d)
       THEN /\ queue' = queue \o SubSeq(d, 1, f - 1)
            /\ pc' = "err"
            /\ at' = "queue"
            /\ UNCHANGED <<flushed, termStyle, termCur>>
       ELSE IF f = Len(d) + 1
       THEN /\ queue' = q
            /\ flushed' = <<>>
            /\ termStyle' = "unknown"
            /\ termCur' = <<>>
            /\ pc' = "err"
            /\ at' = "flush"
       ELSE /\ queue' = <<>>
            /\ flushed' = q
            /\ termStyle' = t.style
            /\ termCur' = t.cur
            /\ pc' = "read"
            /\ at' = ""

\* read()? fails
run_read_fails ==
    /\ pc = "read"
    /\ pc' = "err"
    /\ at' = "read"
    /\ UNCHANGED <<variant, overflow_checks, size, mode, cx, cy, queue, flushed,
                   termStyle, termCur, rawMode, altScreen, action, matched>>

\* an Action a, dispatched from event e, is applied; the model follows the cursor
\* inside Cols x Rows only
run_apply(e, a, f) ==
    LET r == apply(editor, e, a, f) IN
    /\ f \in 0..queue_calls(a)
    /\ r.x \in Cols
    /\ r.y \in Rows
    /\ mode' = r.mode
    /\ cx' = r.x
    /\ cy' = r.y
    /\ size' = r.size
    /\ queue' = r.queue
    /\ pc' = r.pc
    /\ at' = r.at
    /\ action' = [mode |-> mode, ev |-> e, act |-> a]
    /\ flushed' = <<>>
    /\ UNCHANGED <<variant, overflow_checks, termStyle, termCur, rawMode, altScreen>>

\* self.handle_event(read()?)? and the match on its Action
run_event(e, f) ==
    /\ pc = "read"
    /\ run_apply(e, handle_event(e), f)
    /\ matched' = match_next(matched, e)

Startup == pc = "start" /\ run_startup(0) /\ UNCHANGED twin
StartupFails ==
    pc = "start" /\ (\E f \in 1..Len(startup_calls) : run_startup(f)) /\ UNCHANGED twin
Draw == pc = "draw" /\ run_draw(0) /\ UNCHANGED twin
DrawFails ==
    pc = "draw" /\ (\E f \in 1..(Len(draw) + 1) : run_draw(f)) /\ UNCHANGED twin
ReadFails == pc = "read" /\ run_read_fails /\ UNCHANGED twin
ReadEvent == pc = "read" /\ (\E e \in Events : run_event(e, 0)) /\ UNCHANGED twin
ApplyFails ==
    pc = "read" /\ (\E e \in Events, f \in 1..2 : run_event(e, f)) /\ UNCHANGED twin

Next ==
    \/ Startup
    \/ StartupFails
    \/ Draw
    \/ DrawFails
    \/ ReadFails
    \/ ReadEvent
    \/ ApplyFails

Spec == Init /\ [][Next]_vars

(***************************************************************************)
(* The run followed from a cursor anywhere in Cols x Rows.  Every such      *)
(* cursor is reached from (0, 0) in Normal mode by MoveRight and MoveDown   *)
(* alone; the state is the one run() is in when it then blocks in read().   *)
(***************************************************************************)
InitAny ==
    /\ variant \in Variants
    /\ overflow_checks \in BOOLEAN
    /\ size \in WideSizes
    /\ mode = "Normal"
    /\ cx \in Cols \ EdgeCoords
    /\ cy \in Rows \ EdgeCoords
    /\ draw_panic = ""
    /\ pc = "read"
    /\ at = ""
    /\ queue = <<>>
    /\ flushed = draw
    /\ termStyle = get_cursor_style("Normal")
    /\ termCur = <<cx, cy>>
    /\ rawMode = TRUE
    /\ altScreen = TRUE
    /\ action = Idle
    /\ matched = Off
    /\ twin = NoTwin

NextAny ==
    \/ Draw
    \/ DrawFails
    \/ ReadFails
    \/ ReadEvent
    \/ ApplyFails

SpecAny == InitAny /\ [][NextAny]_vars

(***************************************************************************)
(* The state machine alone: each Action of the enum is applied to the      *)
(* editor directly, without the dispatcher.                                *)
(***************************************************************************)
Actions ==
    {Act(n) : n \in {"Quit", "MoveUp", "MoveDown", "MoveLeft", "MoveRight"}}
        \cup {ActArg("ChangeMode", m) : m \in Modes}
        \cup {ActArg("AddChar", c) : c \in Chars}
        \cup {Act("NewLine")}

\* ch1's enum has no NewLine
run_action(a, f) ==
    /\ pc = "read"
    /\ a.name = "NewLine" => variant = "ch2"
    /\ run_apply(Idle.ev, a, f)
    /\ matched' = Off

ApplyAction == pc = "read" /\ (\E a \in Actions : run_action(a, 0)) /\ UNCHANGED twin
ApplyActionFails ==
    pc = "read" /\ (\E a \in Actions, f \in 1..2 : run_action(a, f)) /\ UNCHANGED twin

NextApply ==
    \/ Startup
    \/ StartupFails
    \/ Draw
    \/ DrawFails
    \/ ReadFails
    \/ ApplyAction
    \/ ApplyActionFails

SpecApply == Init /\ [][NextApply]_vars

(***************************************************************************)
(* The run followed from a cursor one step before the last value of a u16:  *)
(* 65534 MoveRight and/or MoveDown from (0, 0) in Normal mode, then blocked *)
(* in read().  The status line of a wide terminal has room for 5 digits.    *)
(***************************************************************************)
InitEdge ==
    /\ variant \in Variants
    /\ overflow_checks \in BOOLEAN
    /\ size \in WideSizes
    /\ mode = "Normal"
    /\ cx \in {0, U16Mod - 2}
    /\ cy \in {0, U16Mod - 2}
    /\ cx + cy > 0
    /\ draw_panic = ""
    /\ pc = "read"
    /\ at = ""
    /\ queue = <<>>
    /\ flushed = draw
    /\ termStyle = get_cursor_style("Normal")
    /\ termCur = <<cx, cy>>
    /\ rawMode = TRUE
    /\ altScreen = TRUE
    /\ action = Idle
    /\ matched = Off
    /\ twin = NoTwin

SpecEdge == InitEdge /\ [][NextAny]_vars

(***************************************************************************)
(* The run in which no event read dispatches to MoveRight.                  *)
(***************************************************************************)
ReadEventNoRight ==
    /\ pc = "read"
    /\ \E e \in Events : handle_event(e) # Act("MoveRight") /\ run_event(e, 0)
    /\ UNCHANGED twin

NextNoRight ==
    \/ Startup
    \/ StartupFails
    \/ Draw
    \/ DrawFails
    \/ ReadFails
    \/ ReadEventNoRight
    \/ ApplyFails

SpecNoRight == Init /\ [][NextNoRight]_vars

(***************************************************************************)
(* The two variants side by side: the status-line variant runs as above and *)
(* `twin` is the editor of the minimal variant, built the same way, started *)
(* with the same terminal size and fed the same events.  No terminal        *)
(* operation fails, and no event is the Enter key.                          *)
(***************************************************************************)
EventsNoEnter == Events \ {Key("Enter")}

\* Editor::new() of the minimal variant
twin_new ==
    [mode |-> "Normal", x |-> 0, y |-> 0, size |-> size, queue |-> <<>>,
     pc |-> "start", at |-> ""]

\* the minimal variant's draw: MoveTo(x, y) is queued and all is flushed
twin_draw(t) == [t EXCEPT !.queue = <<>>, !.pc = "read"]

\* the minimal variant's handling of the event e
twin_event(t, e) ==
    apply([t EXCEPT !.pc = "draw"], e, handle_event_of("ch1", t.mode, e), 0)

InitBoth == new /\ variant = "ch2" /\ twin = twin_new

StartupBoth ==
    /\ pc = "start" /\ twin.pc = "start"
    /\ run_startup(0)
    /\ twin' = [twin EXCEPT !.pc = "draw"]
DrawBoth ==
    /\ pc = "draw" /\ twin.pc = "draw"
    /\ run_draw(0)
    /\ twin' = twin_draw(twin)
ReadEventBoth ==
    /\ pc = "read" /\ twin.pc = "read"
    /\ \E e \in EventsNoEnter :
          /\ run_event(e, 0)
          /\ twin' = twin_event(twin, e)

NextBoth ==
    \/ StartupBoth
    \/ DrawBoth
    \/ ReadEventBoth

SpecBoth == InitBoth /\ [][NextBoth]_vars

(***************************************************************************)
(* Properties.  `action` holds, in the state after an event was handled,   *)
(* the mode it was dispatched in, the event and the Action.                *)
(***************************************************************************)

\* C1: key bindings never leak across modes.  In Normal mode Down and 'j' give
\* MoveDown, Up and 'k' MoveUp, Left and 'h' MoveLeft, Right and 'l' MoveRight,
\* 'q' Quit, 'i' ChangeMode(Insert), and no key gives AddChar or NewLine; in
\* Insert mode every character key c gives AddChar(c).
C1_BindingsAreModeScoped ==
    action.ev.kind = "Key" =>
        /\ action.mode = "Normal" =>
            /\ action.act.name \notin {"AddChar", "NewLine"}
            /\ action.ev \in {Key("Down"), KeyChar("j")} => action.act = Act("MoveDown")
            /\ action.ev \in {Key("Up"), KeyChar("k")} => action.act = Act("MoveUp")
            /\ action.ev \in {Key("Left"), KeyChar("h")} => action.act = Act("MoveLeft")
            /\ action.ev \in {Key("Right"), KeyChar("l")} => action.act = Act("MoveRight")
            /\ action.ev = KeyChar("q") => action.act = Act("Quit")
            /\ action.ev = KeyChar("i") => action.act = ActArg("ChangeMode", "Insert")
        /\ (action.mode = "Insert" /\ action.ev.code = "Char") =>
            /\ action.act = ActArg("AddChar", action.ev.ch)
            /\ action.act.name \notin
                 {"Quit", "MoveUp", "MoveDown", "MoveLeft", "MoveRight", "ChangeMode"}
            /\ pc # "ok"

\* 'q' was typed in Insert mode and the loop goes on
C1_Witness ==
    /\ action.mode = "Insert"
    /\ action.ev = KeyChar("q")
    /\ action.act = ActArg("AddChar", "q")
    /\ pc = "draw"

\* C2: cursor decrements saturate at 0.  MoveUp at y = 0 leaves y = 0, MoveLeft
\* at x = 0 leaves x = 0, and no step takes a coordinate out of 0..MaxCol (resp.
\* 0..MaxRow) by going below 0 or wrapping to a large value.
C2_DecrementsSaturate ==
    [][ /\ (pc = "read" /\ action'.act = Act("MoveUp") /\ cy = 0) => cy' = 0
        /\ (pc = "read" /\ action'.act = Act("MoveLeft") /\ cx = 0) => cx' = 0
        /\ (pc = "read" /\ action'.act.name \in {"MoveUp", "MoveLeft"}) =>
              /\ cx' \in 0..cx
              /\ cy' \in 0..cy
        /\ cx' \in 0..(U16Mod - 1)
        /\ cy' \in 0..(U16Mod - 1) ]_vars

\* MoveUp was applied at y = 0: the terminal's cursor is still where the draw
\* before the event put it, in row 0
C2_Witness ==
    /\ action.act = Act("MoveUp")
    /\ termCur = <<cx, 0>>
    /\ cy = 0
    /\ pc = "draw"

\* C3: AddChar(c) at (x, y) with captured width w queues the write of c at
\* (x, y), the position before the increment; then x = w gives the cursor
\* (0, y + 1), and every x < w, x = w - 1 included, gives (x + 1, y).
C3_AddCharWrapsPastWidth ==
    [][ (pc = "read" /\ action'.act.name = "AddChar" /\ pc' = "draw") =>
          /\ queue' = queue \o <<MoveTo(cx, cy), style_Print(action'.act.arg)>>
          /\ cx = size[1] => (cx' = 0 /\ cy' = cy + 1)
          /\ cx < size[1] => (cx' = cx + 1 /\ cy' = cy)
          /\ cx = size[1] - 1 => (cx' = size[1] /\ cy' = cy) ]_vars

\* width 80, cursor (80, 5): the character was written at (80, 5) and the cursor
\* is at (0, 6)
C3_Witness ==
    /\ size[1] = 80
    /\ action.act.name = "AddChar"
    /\ queue = <<MoveTo(80, 5), style_Print(action.act.arg)>>
    /\ cx = 0
    /\ cy = 6
    /\ pc = "draw"

\* C4: mode and cursor style are synchronized.  A step that changes the mode
\* queues the cursor-style command of the new mode in that same step, and
\* whenever the loop blocks in read() nothing is left queued and the style the
\* terminal shows is SteadyBlock in Normal mode and BlinkingBar in Insert mode.
C4_StyleFollowsMode ==
    [][ /\ mode' # mode =>
              /\ Len(queue') = Len(queue) + 1
              /\ queue'[Len(queue')] =
                    SetCursorStyle(IF mode' = "Normal" THEN "SteadyBlock"
                                   ELSE "BlinkingBar")
        /\ pc' = "read" =>
              /\ queue' = <<>>
              /\ mode' = "Normal" => termStyle' = "SteadyBlock"
              /\ mode' = "Insert" => termStyle' = "BlinkingBar" ]_vars

\* blocked in read() in Insert mode with the bar cursor shown
C4_Witness ==
    /\ pc = "read"
    /\ mode = "Insert"
    /\ termStyle = "BlinkingBar"

\* the status-line variant built with overflow checks needs room for its status
\* line: 8 columns of mode, 4 of position, 2 separators, and 2 rows
HelloFits ==
    \/ variant = "ch1"
    \/ ~overflow_checks
    \/ (size[1] >= 14 /\ size[2] >= 2)

\* what the first `matched` keys of 'i' 'h' 'e' 'l' 'l' 'o' Esc 'q' have yielded,
\* unless a terminal operation failed
HelloOutcome ==
    /\ pc # "panic"
    /\ pc \in {"draw", "read", "ok"} =>
        /\ mode = IF matched \in 1..6 THEN "Insert" ELSE "Normal"
        /\ cx = (CASE matched = 0 -> 0 [] matched \in 1..6 -> matched - 1 [] OTHER -> 5)
        /\ cy = 0
        /\ (matched = 1 /\ pc = "draw") => queue = <<SetCursorStyle("BlinkingBar")>>
        /\ (matched \in 1..6 /\ pc = "read") => termStyle = "BlinkingBar"
        /\ (matched \in 2..6 /\ pc = "draw") =>
              queue = << MoveTo(matched - 2, 0),
                         style_Print(<<"h", "e", "l", "l", "o">>[matched - 1]) >>
        /\ (matched \in 2..6 /\ pc = "read") =>
              SubSeq(flushed, 1, 2) =
                  << MoveTo(matched - 2, 0),
                     style_Print(<<"h", "e", "l", "l", "o">>[matched - 1]) >>
        /\ (matched = 7 /\ pc = "read") => termStyle = "SteadyBlock"
        /\ (matched = 8) <=> (pc = "ok")
        /\ pc = "ok" => ~ENABLED Next

\* C5: from Normal mode at (0, 0) on a terminal wider than 5 columns, the keys
\* 'i' 'h' 'e' 'l' 'l' 'o' Esc 'q' yield in order: Insert mode with the bar
\* cursor style issued; h, e, l, l, o written at (0,0) .. (4,0) and the cursor at
\* (5,0); Normal mode after Esc; the end of run after 'q', with no further step.
C5_HelloRunAnyWidth ==
    (matched \in 0..8 /\ size[1] > 5) => HelloOutcome

\* What holds of the scenario of C5: the same where the status line fits.
HelloRunWhereStatusLineFits ==
    (matched \in 0..8 /\ size[1] > 5 /\ HelloFits) => HelloOutcome

\* all eight keys were read and run has returned Ok, in the status-line variant
HelloRunCompletes ==
    /\ matched = 8
    /\ pc = "ok"
    /\ variant = "ch2"
    /\ overflow_checks
    /\ cx = 5
    /\ cy = 0

\* C6: run returns Ok only through Quit.  A step ends in "ok" exactly when it
\* reads the key 'q' in Normal mode; that step changes neither mode nor cursor
\* and queues nothing; no step follows it; and the handling of any other event
\* goes on to the next draw unless a terminal operation fails.
C6_OnlyQuitEndsRun ==
    [][ /\ (pc' = "ok") <=>
              (pc = "read" /\ action'.mode = "Normal" /\ action'.ev = KeyChar("q"))
        /\ pc' = "ok" =>
              /\ action'.act = Act("Quit")
              /\ mode' = mode /\ cx' = cx /\ cy' = cy
              /\ queue' = queue /\ size' = size
        /\ pc # "ok"
        /\ pc = "read" => pc' \in {"draw", "ok", "err"} ]_vars

\* run has returned Ok after 'q' with the cursor away from the origin
C6_Witness ==
    /\ pc = "ok"
    /\ action.ev = KeyChar("q")
    /\ cx > 0
    /\ cy > 0

\* C7: an event that is no key event dispatches to no Action in either mode, and
\* handling it leaves mode, cursor, captured size and queue as they were; the
\* captured size never changes at all.
C7_NonKeyEventsIgnored ==
    [][ /\ (pc = "read" /\ action'.ev.kind \in
                {"Resize", "Mouse", "Paste", "FocusGained", "FocusLost"}) =>
              /\ action'.act = None
              /\ mode' = mode /\ cx' = cx /\ cy' = cy
              /\ queue' = queue
              /\ pc' = "draw"
        /\ size' = size ]_vars

\* a Resize to 80 x 25 was handled in Insert mode and the captured size is still
\* another one
C7_Witness ==
    /\ action.ev = Resize(80, 25)
    /\ action.mode = "Insert"
    /\ action.act = None
    /\ size # <<80, 25>>
    /\ pc = "draw"

\* C8: ChangeMode(m) is idempotent in the mode it sets and is never coalesced.
\* Applied in any state, also one whose mode is m already, it sets the mode to m,
\* leaves the cursor alone and queues exactly one cursor-style command, that of m.
C8_ChangeModeIdempotent ==
    [][ (pc = "read" /\ action'.act.name = "ChangeMode" /\ pc' = "draw") =>
          /\ mode' = action'.act.arg
          /\ mode = action'.act.arg => mode' = mode
          /\ cx' = cx /\ cy' = cy
          /\ queue' = Append(queue,
                 SetCursorStyle(IF action'.act.arg = "Normal" THEN "SteadyBlock"
                                ELSE "BlinkingBar")) ]_vars

\* ChangeMode(Insert) was applied in Insert mode and queued its command again
C8_Witness ==
    /\ action.act = ActArg("ChangeMode", "Insert")
    /\ action.mode = "Insert"
    /\ mode = "Insert"
    /\ queue = <<SetCursorStyle("BlinkingBar")>>
    /\ pc = "draw"

\* the status-line segments among the commands cmds, and the cells they take
status_segments(cmds) == SelectSeq(cmds, LAMBDA c : c.op = "PrintStyledContent")
RECURSIVE cells_of(_)
cells_of(cmds) == IF cmds = <<>> THEN 0 ELSE Head(cmds).cells + cells_of(Tail(cmds))

\* C9: in the status-line variant on a terminal at least 40 columns wide, for
\* every mode and cursor, the filler width is computed without underflow or
\* panic, and the status line a draw has flushed is the mode segment " NORMAL "
\* or " INSERT " (8 cells), a separator (1), the padded placeholder, a separator
\* (1) and the position " (y+1):(x+1)", whose cells sum to the terminal width.
C9_StatusLineFillsWidth ==
    (variant = "ch2" /\ size[1] >= 40) =>
        /\ ~file_width_overflows
        /\ ~(pc = "panic" /\ at = "file_width")
        /\ pc = "read" =>
            LET sl == status_segments(flushed) IN
            /\ Len(sl) = 5
            /\ sl[1].text = (IF mode = "Normal" THEN " NORMAL " ELSE " INSERT ")
            /\ sl[1].cells = 8
            /\ sl[2].cells = 1
            /\ sl[3].text = " src/main.rs"
            /\ sl[4].cells = 1
            /\ sl[5].text = " " \o fmt_u16(cy + 1) \o ":" \o fmt_u16(cx + 1)
            /\ sl[5].cells = Len(sl[5].text)
            /\ cells_of(sl) = size[1]

\* width exactly 40, Insert mode, cursor (9999, 9999): the position takes 12
\* cells and the placeholder is padded to the 18 that are left
C9_Witness ==
    /\ pc = "read"
    /\ variant = "ch2"
    /\ size[1] = 40
    /\ mode = "Insert"
    /\ cx = 9999
    /\ cy = 9999
    /\ status_segments(flushed)[5].text = " 10000:10000"
    /\ status_segments(flushed)[3].cells = 18

\* C10: raw mode brackets the run loop.  Raw mode is enabled whenever run blocks
\* in read(), and once run has returned, Ok or with a terminal failure, raw mode
\* is disabled and the alternate screen is left.
C10_TerminalRestoredOnExit ==
    /\ pc = "read" => rawMode
    /\ pc \in {"ok", "err"} => (~rawMode /\ ~altScreen)

\* C11: a terminal failure aborts run at once.  A step that fails (a queue, an
\* execute, a flush or the read) ends run with the error and names the failed
\* operation; no step follows it, so nothing is retried, issued or read after
\* it; the failing step queues only the calls it made before the failed one;
\* and it leaves mode and cursor as they were, also when the failure is in the
\* queue call of ChangeMode or in either queue call of AddChar.
C11_FailureAbortsRun ==
    [][ /\ pc # "err"
        /\ pc' = "err" =>
              /\ at' # ""
              /\ mode' = mode /\ cx' = cx /\ cy' = cy /\ size' = size
              /\ flushed' = <<>> \/ flushed' = flushed
              /\ pc = "start" => queue' = queue
              /\ pc = "read" =>
                    \/ /\ at' = "read"
                       /\ queue' = queue
                       /\ action' = action
                    \/ /\ action'.act.name = "ChangeMode"
                       /\ at' = "queue SetCursorStyle"
                       /\ queue' = queue
                    \/ /\ action'.act.name = "AddChar"
                       /\ at' = "queue MoveTo"
                       /\ queue' = queue
                    \/ /\ action'.act.name = "AddChar"
                       /\ at' = "queue Print"
                       /\ queue' = Append(queue, MoveTo(cx, cy))
              /\ pc = "draw" =>
                    \E n \in 0..Len(draw) :
                        /\ queue' = queue \o SubSeq(draw, 1, n)
                        /\ (n = Len(draw)) <=> (at' = "flush") ]_vars

\* queueing the Print of AddChar failed in Insert mode away from the origin: run
\* has ended with the error, the cursor has not advanced, the character was
\* not queued
C11_Witness ==
    /\ pc = "err"
    /\ at = "queue Print"
    /\ action.act.name = "AddChar"
    /\ mode = "Insert"
    /\ cx > 0
    /\ queue = <<MoveTo(cx, cy)>>

\* C12: every Action succeeds in every state.  MoveDown gives y + 1 and
\* MoveRight gives x + 1 and go on to the next draw, whatever the coordinate is,
\* 65535 included, and no step of run, the draw after the Action included,
\* panics.
C12_MovesNeverOverflow ==
    [][ /\ (pc = "read" /\ action'.act = Act("MoveDown")) =>
              (cy' = cy + 1 /\ cx' = cx /\ pc' = "draw")
        /\ (pc = "read" /\ action'.act = Act("MoveRight")) =>
              (cx' = cx + 1 /\ cy' = cy /\ pc' = "draw")
        /\ pc' # "panic" ]_vars

\* the last seven commands of what a draw of the status-line variant flushed
last_draw == SubSeq(flushed, Len(flushed) - 6, Len(flushed))

\* the rendering order of one draw of the status-line variant: the move to the
\* status row, the mode segment, a separator, the filler, a separator, the
\* position segment, and last the move to the cursor
StatusLineThenCursor ==
    /\ Len(flushed) >= 7
    /\ last_draw[1].op = "MoveTo" /\ last_draw[1].x = 0
    /\ size[2] >= 2 => last_draw[1].y = size[2] - 2
    /\ \A i \in 2..6 : last_draw[i].op = "PrintStyledContent"
    /\ <<last_draw[2].seg, last_draw[3].seg, last_draw[4].seg, last_draw[5].seg,
         last_draw[6].seg>> = <<"mode", "sep", "file", "sep", "pos">>
    /\ last_draw[7] = MoveTo(cx, cy)
    /\ \A i \in 1..(Len(flushed) - 7) : flushed[i].op # "PrintStyledContent"
    /\ termCur = <<cx, cy>>

\* C13 as stated: in the status-line variant every draw queues the status line
\* first and MoveTo(x, y) last, so after every flush the terminal's cursor is at
\* the editor cursor (x, y), and it is not on the status line (row height - 2).
C13_CursorNeverOnStatusLine ==
    (variant = "ch2" /\ pc = "read") =>
        /\ StatusLineThenCursor
        /\ termCur[2] # last_draw[1].y

\* C13 amended: the same order, and after every flush the terminal's cursor is
\* at the editor cursor (x, y), the place the last MoveTo addressed; that is on
\* the status line's row exactly when y is that row.
C13_StatusLineBeforeCursor ==
    (variant = "ch2" /\ pc = "read") =>
        /\ StatusLineThenCursor
        /\ (termCur[2] = last_draw[1].y) <=> (cy = last_draw[1].y)

\* a character typed in Insert mode was flushed ahead of the status line, and
\* the terminal's cursor is behind it, off the status row
C13_Witness ==
    /\ variant = "ch2"
    /\ pc = "read"
    /\ mode = "Insert"
    /\ Len(flushed) = 9
    /\ flushed[2].op = "Print"
    /\ flushed[9] = MoveTo(cx, cy)
    /\ cx > 0
    /\ termCur = <<cx, cy>>
    /\ cy # size[2] - 2

\* C14: the steps of the loop are totally ordered draw, read and classify,
\* apply.  run blocks in read() only out of a draw, which changes neither mode
\* nor cursor and flushes, once, all that was queued followed by its own
\* commands; the one event read is applied in the same step, before the next
\* draw, and no second event is read without a draw in between; and
\* whenever run blocks in read() and when it has returned through Quit, nothing
\* is left queued and the terminal shows the cursor style of the mode and has
\* its cursor at (x, y).
C14_LoopIsTotallyOrdered ==
    [][ /\ pc' = "read" =>
              /\ pc = "draw"
              /\ flushed' = queue \o draw
        /\ pc = "draw" => (mode' = mode /\ cx' = cx /\ cy' = cy)
        /\ pc = "read" =>
              /\ pc' # "read"
              /\ pc' \in {"draw", "ok"} => action'.ev.kind # "-"
              /\ pc' = "ok" => action'.act = Act("Quit")
        /\ pc' \in {"read", "ok"} =>
              /\ queue' = <<>>
              /\ termStyle' = (IF mode' = "Normal" THEN "SteadyBlock"
                               ELSE "BlinkingBar")
              /\ termCur' = <<cx', cy'>> ]_vars

\* 'i', the five letters of hello, Esc and 'q' were read: run has returned
\* through Quit, nothing is queued, the block cursor is shown at (5, 0)
C14_Witness ==
    /\ pc = "ok"
    /\ matched = 8
    /\ queue = <<>>
    /\ termStyle = "SteadyBlock"
    /\ termCur = <<5, 0>>
    /\ cx = 5 /\ cy = 0

\* C15: NewLine exists in the status-line variant only and in Insert mode only.
\* There the Enter key gives NewLine, which sets the cursor to (0, y + 1),
\* queues nothing and leaves the mode alone; Enter in Insert mode of the minimal
\* variant, and Enter in Normal mode of both, gives no Action and changes
\* nothing; and no other event gives NewLine.
C15_NewLineOnlyInsertCh2 ==
    [][ /\ (pc = "read" /\ action'.ev = Key("Enter")) =>
              IF variant = "ch2" /\ mode = "Insert"
              THEN /\ action'.act = Act("NewLine")
                   /\ cx' = 0 /\ cy' = cy + 1
                   /\ queue' = queue
                   /\ mode' = mode
                   /\ pc' = "draw"
              ELSE /\ action'.act = None
                   /\ cx' = cx /\ cy' = cy
                   /\ queue' = queue
                   /\ mode' = mode
                   /\ pc' = "draw"
        /\ (pc = "read" /\ action'.act.name = "NewLine") =>
              /\ variant = "ch2"
              /\ mode = "Insert"
              /\ action'.ev = Key("Enter") ]_vars

\* Enter was typed in Insert mode behind some text: the cursor, which the draw
\* before had put at a column right of 0, is at column 0 of the next row
C15_Witness ==
    /\ action.act = Act("NewLine")
    /\ action.mode = "Insert"
    /\ termCur # <<>>
    /\ termCur[1] > 0
    /\ cx = 0
    /\ cy = termCur[2] + 1
    /\ queue = <<>>
    /\ mode = "Insert"
    /\ pc = "draw"

\* the minimal variant is where the status-line variant is: same position of
\* run, same mode, cursor and size, same writes and style commands queued
\* since the last flush
VariantsAgree ==
    /\ twin.pc = pc
    /\ twin.mode = mode
    /\ twin.x = cx /\ twin.y = cy
    /\ twin.size = size
    /\ twin.queue = queue

\* C16: the two variants are one state machine.  On the same events, none of
\* them Enter, and the same terminal size, the minimal and the status-line
\* variant go through the same modes and cursors, queue the same AddChar writes
\* and cursor-style commands, and end at the same event.
C16_VariantsAreOneMachine ==
    twin # NoTwin => VariantsAgree

\* What holds of C16: the same where the status line fits the terminal.
VariantsAgreeWhereStatusLineFits ==
    (twin # NoTwin /\ HelloFits) => VariantsAgree

\* both variants have typed a character in Insert mode and queued the same write
VariantsAgreeOnAddChar ==
    /\ twin # NoTwin
    /\ overflow_checks
    /\ pc = "draw"
    /\ action.act.name = "AddChar"
    /\ twin.queue = <<MoveTo(twin.x - 1, twin.y), style_Print(action.act.arg)>>
    /\ VariantsAgree

\* the column at which the AddChar just applied has written its character
written_x == queue[Len(queue) - 1].x

\* C17 as stated: in a run from (0, 0) without MoveRight every character of
\* AddChar is written at a column x with 0 <= x < width, a visible cell.
C17_TypedTextStaysOnScreen ==
    (pc = "draw" /\ action.act.name = "AddChar") =>
        /\ queue[Len(queue) - 1].op = "MoveTo"
        /\ queue[Len(queue)].op = "Print"
        /\ 0 <= written_x /\ written_x < size[1]

\* C17 amended: in a run from (0, 0) without MoveRight every character of
\* AddChar is written at a column x with 0 <= x <= width; the column width, one
\* past the last visible cell, is written before the wrap is taken.
C17_TypedTextWithinWidth ==
    (pc = "draw" /\ action.act.name = "AddChar") =>
        /\ queue[Len(queue) - 1].op = "MoveTo"
        /\ queue[Len(queue)].op = "Print"
        /\ 0 <= written_x /\ written_x <= size[1]
        /\ cx <= size[1]

\* a character was written at the column width and the cursor has wrapped to
\* the next row
C17_Witness ==
    /\ pc = "draw"
    /\ action.act.name = "AddChar"
    /\ queue = <<MoveTo(size[1], cy - 1), style_Print(action.act.arg)>>
    /\ cx = 0
    /\ cy >= 1

\* C18: through the dispatcher every ChangeMode changes the mode.  An event
\* gives ChangeMode(Insert) only in Normal mode, as the key 'i', and
\* ChangeMode(Normal) only in Insert mode, as the key Esc; so each ChangeMode
\* applied turns the mode into the other one, only a ChangeMode changes the
\* mode, and no step of the loop queues the cursor style of the mode it is in.
C18_ChangeModeAlternates ==
    [][ /\ (pc = "read" /\ action'.act.name = "ChangeMode") =>
              /\ action'.act.arg # mode
              /\ mode = "Normal" =>
                    (action'.ev = KeyChar("i") /\ action'.act.arg = "Insert")
              /\ mode = "Insert" =>
                    (action'.ev = Key("Esc") /\ action'.act.arg = "Normal")
              /\ pc' = "draw" => (mode' # mode /\ mode' = action'.act.arg)
        /\ mode' # mode => (pc = "read" /\ action'.act.name = "ChangeMode")
        /\ pc \in {"draw", "read"} =>
              \A i \in (Len(queue) + 1)..Len(queue') :
                  queue'[i].op = "SetCursorStyle" =>
                      queue'[i].style = (IF mode = "Normal" THEN "BlinkingBar"
                                         ELSE "SteadyBlock") ]_vars

\* Esc was read in Insert mode: the mode is Normal again and the block style is
\* queued while the terminal still shows the bar
C18_Witness ==
    /\ pc = "draw"
    /\ action.mode = "Insert"
    /\ action.ev = Key("Esc")
    /\ action.act = ActArg("ChangeMode", "Normal")
    /\ mode = "Normal"
    /\ queue = <<SetCursorStyle("SteadyBlock")>>
    /\ termStyle = "BlinkingBar"

\* C19: Quit is always reachable, by at most two keys.  Whenever run blocks in
\* read() in Normal mode, reading 'q' ends run with Ok; whenever it blocks in
\* Insert mode, reading Esc leads in Normal mode to a draw, and nothing in that
\* draw panics, so that it blocks in read() again, in Normal mode; and the
\* startup can always take its step.
C19_QuitAlwaysReachable ==
    /\ (pc = "read" /\ mode = "Normal") =>
          ENABLED (ReadEvent /\ action'.ev = KeyChar("q") /\ pc' = "ok")
    /\ (pc = "read" /\ mode = "Insert") =>
          ENABLED (ReadEvent /\ action'.ev = Key("Esc") /\ pc' = "draw"
                     /\ mode' = "Normal" /\ cx' = cx /\ cy' = cy)
    /\ (pc = "draw" /\ action.ev = Key("Esc") /\ action.mode = "Insert") =>
          (mode = "Normal" /\ draw_panic = "")
    /\ pc = "start" => ENABLED Startup

\* run has returned through Quit from a cursor behind the last column, in a row
\* below the first
C19_Witness ==
    /\ pc = "ok"
    /\ action.act = Act("Quit")
    /\ action.mode = "Normal"
    /\ cx = size[1]
    /\ cy >= 1

\* the commands with operation op among those the step has added to the queue
queued_now(op) ==
    {i \in (Len(queue) + 1)..Len(queue') : queue'[i].op = op}

\* C20: Actions touch only their own part of the state.  The four moves,
\* AddChar and NewLine leave the mode alone and queue no cursor-style command;
\* MoveUp and MoveDown leave x alone, MoveLeft and MoveRight leave y alone;
\* ChangeMode leaves the cursor alone and queues no character; no Action but
\* AddChar queues a character; and a key that gives no Action changes neither
\* mode, cursor, size nor queue.
C20_ActionsTouchOwnState ==
    [][ pc = "read" =>
          /\ action'.act.name \in {"MoveUp", "MoveDown", "MoveLeft", "MoveRight",
                                   "AddChar", "NewLine"} =>
                (mode' = mode /\ queued_now("SetCursorStyle") = {})
          /\ action'.act.name \in {"MoveUp", "MoveDown"} => cx' = cx
          /\ action'.act.name \in {"MoveLeft", "MoveRight"} => cy' = cy
          /\ action'.act.name = "ChangeMode" =>
                (cx' = cx /\ cy' = cy /\ queued_now("Print") = {})
          /\ action'.act.name # "AddChar" =>
                (queued_now("Print") = {} /\ queued_now("MoveTo") = {})
          /\ (action'.ev.kind = "Key" /\ action'.act = None) =>
                /\ mode' = mode /\ cx' = cx /\ cy' = cy
                /\ size' = size /\ queue' = queue
                /\ pc' = "draw" ]_vars

\* MoveDown was applied in Insert mode right of column 0: the cursor is one row
\* below where the draw before had put it, in the same column
C20_Witness ==
    /\ pc = "draw"
    /\ action.act = Act("MoveDown")
    /\ action.mode = "Insert"
    /\ mode = "Insert"
    /\ termCur # <<>>
    /\ cx > 0
    /\ termCur = <<cx, cy - 1>>
    /\ queue = <<>>

====
